---- MODULE Spec2Model ----
(***************************************************************************)
(* Model of the DMAP security-maturity report generator                    *)
(* (src/DMAP/pdf_generator.py, class ProductResultsPDFGenerator) and of    *)
(* the roadmap phase logic exercised by src/DMAP/test_enhanced_roadmap.py. *)
(*                                                                         *)
(* Numbers.  Python floats are modelled as exact rationals [n, d] in       *)
(* lowest terms with d > 0; every input of the model is a decimal with one *)
(* fractional digit or an integer, and the arithmetic of the code          *)
(* (+, / 20, / score_count, round, comparison) is carried out exactly.     *)
(*                                                                         *)
(* Values.  A Python value that the code reads as a score is a record      *)
(* [kind, n, d]: kind "num" (a number n/d), "none" (None), "absent" (the   *)
(* attribute does not exist) or "str" (a non-numeric string).              *)
(***************************************************************************)
EXTENDS Integers, Sequences, FiniteSets, TLC

VARIABLES
    scores,           \* self.scores: [is_none, items]; items is the list of score records
    responses,        \* self.responses: list of [section, question, answer, score]
    op,               \* the method that ran last ("init" right after __init__)
    arg,              \* the argument of the last call (NoneVal when it takes none)
    status,           \* "ok": the call returned; "TypeError": it raised
    story,            \* the list of flowables the last create_* / generate_pdf built
    locals,           \* the locals of the score loop when the call returned
    ret_label,        \* return value of get_maturity_level
    ret_list,         \* return value of generate_recommendations
    roadmap           \* what test_roadmap_logic computed: [levels, phase_1, phase_2, phase_3]

vars == <<scores, responses, op, arg, status, story, locals, ret_label, ret_list, roadmap>>

-----------------------------------------------------------------------------
(* Bounds of the model *)

MaxScores == 2        \* longest self.scores list
MaxSubdims == 2       \* sub-dimensions in the mock dictionary of test_roadmap_logic
MaxArgTenths == 60    \* largest direct argument of get_maturity_level, in tenths
MaxResponses == 3     \* longest self.responses list of the questionnaire sections

-----------------------------------------------------------------------------
(* Numbers and values *)

RECURSIVE GCD(_, _)
GCD(a, b) == IF b = 0 THEN a ELSE GCD(b, a % b)

Abs(x) == IF x < 0 THEN -x ELSE x

Num(n, d) ==
    LET g == GCD(Abs(n), d)
    IN  [kind |-> "num", n |-> n \div g, d |-> d \div g]

NoneVal == [kind |-> "none", n |-> 0, d |-> 1]
AbsentVal == [kind |-> "absent", n |-> 0, d |-> 1]
StrVal == [kind |-> "str", n |-> 0, d |-> 1]

IsNum(v) == v.kind = "num"

\* a > k, a < k, a >= k, a <= k for a number a and an integer k
Gt(a, k) == a.n > k * a.d
Lt(a, k) == a.n < k * a.d
Ge(a, k) == a.n >= k * a.d
Le(a, k) == a.n <= k * a.d

\* a <= b for two numbers
Leq(a, b) == a.n * b.d <= b.n * a.d

Add(a, b) == Num(a.n * b.d + b.n * a.d, a.d * b.d)

\* a / k for an integer k > 0
DivInt(a, k) == Num(a.n, a.d * k)

\* Python 3 round(x) of one argument: nearest integer, ties to the even one
PyRound(a) ==
    LET fl == a.n \div a.d
        rem == a.n - a.d * fl
    IN  IF 2 * rem < a.d THEN fl
        ELSE IF 2 * rem > a.d THEN fl + 1
        ELSE IF fl % 2 = 0 THEN fl ELSE fl + 1

Min2(a, b) == IF a < b THEN a ELSE b
Max2(a, b) == IF a > b THEN a ELSE b

-----------------------------------------------------------------------------
(* Flowables of a story: [kind, label, text, num, q, ref] *)

Entry(kind, label, text, num, q, ref) ==
    [kind |-> kind, label |-> label, text |-> text, num |-> num, q |-> q, ref |-> ref]

\* Paragraph(text, style)
Para(text) == Entry("paragraph", "", text, NoneVal, 0, 0)
PageBreak == Entry("pagebreak", "", "", NoneVal, 0, 0)

\* a table row [label, f"{value:.1f}..."]: the row keeps the number it formats
NumRow(label, value) == Entry("row", label, "", value, 0, 0)
\* a table row [label, text]
TextRow(label, text) == Entry("row", label, text, NoneVal, 0, 0)
\* a table row [label, str(count)]
CountRow(label, count) == Entry("row", label, "", NoneVal, count, 0)

-----------------------------------------------------------------------------
(* ProductResultsPDFGenerator.get_maturity_level *)

\* rounded_score = max(1, min(5, round(score))) if score and score > 0 else 1
rounded_score(score) ==
    IF IsNum(score) /\ score.n # 0 /\ Gt(score, 0)
    THEN Max2(1, Min2(5, PyRound(score)))
    ELSE 1

get_maturity_level_swapped(score) ==
    LET r == rounded_score(score)
    IN  IF r = 1 THEN "Level 1 - Initial"
        ELSE IF r = 2 THEN "Level 2 - Developing"
        ELSE IF r = 3 THEN "Level 4 - Managed"
        ELSE IF r = 4 THEN "Level 3 - Defined"
        ELSE "Level 5 - Optimized"

get_maturity_level_noclamp(score) ==
    LET r == IF IsNum(score) /\ score.n # 0 /\ Gt(score, 0) THEN PyRound(score) ELSE 0
    IN  IF r = 1 THEN "Level 1 - Initial"
        ELSE IF r = 2 THEN "Level 2 - Developing"
        ELSE IF r = 3 THEN "Level 3 - Defined"
        ELSE IF r = 4 THEN "Level 4 - Managed"
        ELSE "Level 5 - Optimized"

get_maturity_level(score) ==
    LET r == rounded_score(score)
    IN  IF r = 1 THEN "Level 1 - Initial"
        ELSE IF r = 2 THEN "Level 2 - Developing"
        ELSE IF r = 3 THEN "Level 3 - Defined"
        ELSE IF r = 4 THEN "Level 4 - Managed"
        ELSE "Level 5 - Optimized"

\* `score and score > 0` raises TypeError when score is a non-empty string
get_maturity_level_raises(score) == score.kind = "str"

-----------------------------------------------------------------------------
(* ProductResultsPDFGenerator.generate_key_findings / generate_recommendations *)

generate_key_findings(overall_score) ==
    IF Ge(overall_score, 4) THEN
        << "Your organization demonstrates excellent security maturity practices",
           "Continue to maintain and optimize current security processes" >>
    ELSE IF Ge(overall_score, 3) THEN
        << "Your organization has well-defined security processes",
           "Focus on implementing consistent management practices" >>
    ELSE IF Ge(overall_score, 2) THEN
        << "Your organization has basic security processes in place",
           "Work on formalizing and documenting security procedures" >>
    ELSE
        << "Your organization needs significant improvement in security practices",
           "Prioritize establishing fundamental security processes" >>

RecsBelow2 ==
    << "Establish basic security policies and procedures",
       "Implement fundamental access controls",
       "Create incident response procedures",
       "Establish regular security training programs" >>

RecsBelow3 ==
    << "Document all security processes and procedures",
       "Implement regular security assessments",
       "Establish security metrics and monitoring",
       "Create formal risk management processes" >>

RecsBelow4 ==
    << "Implement automated security monitoring",
       "Establish security performance metrics",
       "Create continuous improvement processes",
       "Implement advanced threat detection" >>

RecsTop ==
    << "Continue optimizing security processes",
       "Share best practices across the organization",
       "Implement predictive security analytics",
       "Lead industry security initiatives" >>

generate_recommendations_le(overall_score) ==
    IF Le(overall_score, 2) THEN RecsBelow2
    ELSE IF Le(overall_score, 3) THEN RecsBelow3
    ELSE IF Le(overall_score, 4) THEN RecsBelow4
    ELSE RecsTop

generate_recommendations(overall_score) ==
    IF Lt(overall_score, 2) THEN RecsBelow2
    ELSE IF Lt(overall_score, 3) THEN RecsBelow3
    ELSE IF Lt(overall_score, 4) THEN RecsBelow4
    ELSE RecsTop

-----------------------------------------------------------------------------
(* The score loop of create_title_page, create_executive_summary,          *)
(* create_recommendations and create_maturity_level (four textual copies)  *)

\* score_val = getattr(score, 'total_score', 0)
total_score_attr(score) == IF score.kind = "absent" THEN Num(0, 1) ELSE score

normalized_score_ge(score_val) ==
    IF Ge(score_val, 5) THEN DivInt(score_val, 20) ELSE score_val

normalized_score_gt20(score_val) ==
    IF Gt(score_val, 20) THEN DivInt(score_val, 20) ELSE score_val

normalized_score_div10(score_val) ==
    IF Gt(score_val, 5) THEN DivInt(score_val, 10) ELSE score_val

\* if score_val > 5: normalized_score = score_val / 20 else: normalized_score = score_val
normalized_score(score_val) ==
    IF Gt(score_val, 5) THEN DivInt(score_val, 20) ELSE score_val

NoLocals ==
    [ran |-> FALSE, normalized |-> <<>>, total_score |-> Num(0, 1),
     score_count |-> 0, overall_score |-> NoneVal]

\* The loop from item i on; `score_val > 5` raises TypeError on None and on a string.
RECURSIVE score_loop(_, _, _)
score_loop(items, i, acc) ==
    IF i > Len(items) THEN [acc EXCEPT !.raised = FALSE]
    ELSE LET score_val == total_score_attr(items[i])
         IN  IF ~IsNum(score_val) THEN [acc EXCEPT !.raised = TRUE]
             ELSE LET ns == normalized_score(score_val)
                  IN  score_loop(items, i + 1,
                          [acc EXCEPT !.normalized = Append(@, ns),
                                      !.total_score = Add(@, ns),
                                      !.score_count = @ + 1])

\* The loop and the division after it; `default` is the value of the else branch
\* (1.0 in three copies, 0 in create_executive_summary).
aggregate(items, default) ==
    LET acc == score_loop(items, 1,
                   [raised |-> FALSE, normalized |-> <<>>,
                    total_score |-> Num(0, 1), score_count |-> 0])
    IN  [raised |-> acc.raised,
         ran |-> TRUE,
         normalized |-> acc.normalized,
         total_score |-> acc.total_score,
         score_count |-> acc.score_count,
         overall_score |-> IF acc.raised THEN NoneVal
                           ELSE IF acc.score_count > 0
                                THEN DivInt(acc.total_score, acc.score_count)
                                ELSE default]

LocalsOf(agg) ==
    [ran |-> TRUE, normalized |-> agg.normalized, total_score |-> agg.total_score,
     score_count |-> agg.score_count, overall_score |-> agg.overall_score]

\* `if self.scores:` is false for None and for an empty list
scores_truthy(s) == ~s.is_none /\ Len(s.items) > 0

-----------------------------------------------------------------------------
(* Sections of the report.  Each create_* operator gives                   *)
(* [raised, story, locals]: whether the method raised, else what it built. *)

Section(raised, st, loc) ==
    [raised |-> raised, story |-> IF raised THEN <<>> ELSE st,
     locals |-> IF raised THEN NoLocals ELSE loc]

create_score_visualization(overall_score) ==
    << NumRow("Overall Maturity Score", overall_score),
       TextRow("Maturity Level", get_maturity_level(overall_score)),
       NumRow("Maturity Progress", overall_score) >>

create_title_page(s) ==
    LET head == << Para("Security Maturity Assessment Report"), Para("Product"),
                   Entry("table", "client_info", "", NoneVal, 0, 0) >>
        agg == aggregate(s.items, Num(1, 1))
    IN  IF scores_truthy(s)
        THEN Section(agg.raised,
                     head \o create_score_visualization(agg.overall_score),
                     LocalsOf(agg))
        ELSE Section(FALSE, head \o create_score_visualization(Num(1, 1)), NoLocals)

\* completed_questions = len([r for r in self.responses if getattr(r, 'answer', None)])
completed_questions(resp) == Len(SelectSeq(resp, LAMBDA r : r.answer # ""))

RECURSIVE bullets(_, _)
bullets(texts, i) ==
    IF i > Len(texts) THEN <<>>
    ELSE << Para(texts[i]) >> \o bullets(texts, i + 1)

create_executive_summary(s, resp) ==
    LET head == << Para("Executive Summary") >>
        agg == aggregate(s.items, Num(0, 1))
    IN  IF scores_truthy(s)
        THEN Section(agg.raised,
                     head \o
                     << CountRow("Total Questions", Len(resp)),
                        CountRow("Completed Questions", completed_questions(resp)),
                        NumRow("Overall Maturity Score", agg.overall_score),
                        TextRow("Maturity Level", get_maturity_level(agg.overall_score)),
                        Para("Key Findings") >> \o
                     bullets(generate_key_findings(agg.overall_score), 1),
                     LocalsOf(agg))
        ELSE Section(FALSE, head, NoLocals)

create_recommendations(s) ==
    LET head == << Para("Recommendations") >>
        agg == aggregate(s.items, Num(1, 1))
    IN  IF scores_truthy(s)
        THEN Section(agg.raised,
                     head \o bullets(generate_recommendations(agg.overall_score), 1),
                     LocalsOf(agg))
        ELSE Section(FALSE, head \o bullets(generate_recommendations(Num(1, 1)), 1),
                     NoLocals)

create_product_description ==
    Section(FALSE,
            << Para("Product Information"),
               Entry("table", "product_info", "", NoneVal, 0, 0) >>,
            NoLocals)

create_maturity_level_default(s) ==
    LET head == << Para("Maturity Assessment Results") >>
        agg == aggregate(s.items, Num(1, 1))
    IN  IF scores_truthy(s)
        THEN Section(agg.raised,
                     head \o
                     << NumRow("Overall Maturity Score:", agg.overall_score),
                        TextRow("Maturity Level:", get_maturity_level(agg.overall_score)),
                        NumRow("Maturity Progress:", agg.overall_score) >>,
                     LocalsOf(agg))
        ELSE Section(FALSE,
                     head \o
                     << NumRow("Overall Maturity Score:", Num(1, 1)),
                        TextRow("Maturity Level:", get_maturity_level(Num(1, 1))),
                        NumRow("Maturity Progress:", Num(1, 1)) >>,
                     NoLocals)

create_maturity_level(s) ==
    LET head == << Para("Maturity Assessment Results") >>
        agg == aggregate(s.items, Num(1, 1))
    IN  IF scores_truthy(s)
        THEN Section(agg.raised,
                     head \o
                     << NumRow("Overall Maturity Score:", agg.overall_score),
                        TextRow("Maturity Level:", get_maturity_level(agg.overall_score)),
                        NumRow("Maturity Progress:", agg.overall_score) >>,
                     LocalsOf(agg))
        ELSE Section(FALSE, head \o << Para("No maturity data available") >>, NoLocals)

-----------------------------------------------------------------------------
(* create_questionnaire_responses *)

\* score = getattr(response, 'score', None)
score_attr(response) ==
    IF response.score.kind = "absent" THEN NoneVal ELSE response.score

\* the keys of `sections` in insertion order: each section at its first response
RECURSIVE section_names(_, _, _)
section_names(resp, i, acc) ==
    IF i > Len(resp) THEN acc
    ELSE IF \E k \in 1..Len(acc) : acc[k] = resp[i].section
         THEN section_names(resp, i + 1, acc)
         ELSE section_names(resp, i + 1, Append(acc, resp[i].section))

\* sections[name]: the responses of the section, in input order
section_responses(resp, name) == SelectSeq(resp, LAMBDA r : r.section = name)

\* if score > 5: display_score = score / 20 else: display_score = score
display_score(score) ==
    IF Gt(score, 5) THEN DivInt(score, 20) ELSE score

\* the flowables of one response, numbered i inside its section
response_flowables(response, i) ==
    << Entry("question", "Q", "", NoneVal, i, response.question),
       Entry("answer", "Answer",
             IF response.answer # "" THEN response.answer ELSE "Not answered",
             NoneVal, i, response.question) >> \o
    ( IF score_attr(response).kind # "none"
      THEN << Entry("score", "Score", "", display_score(score_attr(response)),
                    i, response.question) >>
      ELSE <<>> )

RECURSIVE section_flowables(_, _)
section_flowables(rs, i) ==
    IF i > Len(rs) THEN <<>>
    ELSE response_flowables(rs[i], i) \o section_flowables(rs, i + 1)

RECURSIVE sections_flowables(_, _, _)
sections_flowables(resp, names, k) ==
    IF k > Len(names) THEN <<>>
    ELSE << Entry("heading", "", names[k], NoneVal, 0, 0) >> \o
         section_flowables(section_responses(resp, names[k]), 1) \o
         sections_flowables(resp, names, k + 1)

\* `score > 5` raises TypeError for a score that is a string
create_questionnaire_responses(resp) ==
    Section(\E i \in 1..Len(resp) : score_attr(resp[i]).kind = "str",
            << Para("Questionnaire Responses") >> \o
            sections_flowables(resp, section_names(resp, 1, <<>>), 1),
            NoLocals)

\* generate_pdf: the story handed to doc.build, unless a section raised
generate_pdf(s, resp) ==
    LET d == create_product_description
        q == create_questionnaire_responses(resp)
        m == create_maturity_level(s)
    IN  IF q.raised THEN Section(TRUE, <<>>, NoLocals)
        ELSE Section(m.raised,
                     d.story \o << PageBreak >> \o q.story \o << PageBreak >> \o m.story,
                     m.locals)

-----------------------------------------------------------------------------
(* create_detailed_results *)

\* if score > 5: normalized_score = score / 20 else: normalized_score = score
section_normalized_score(score) ==
    IF Gt(score, 5) THEN DivInt(score, 20) ELSE score

\* section_scores: the normalized scores of the responses whose score is not None
RECURSIVE section_scores(_, _)
section_scores(rs, i) ==
    IF i > Len(rs) THEN <<>>
    ELSE ( IF score_attr(rs[i]).kind # "none"
           THEN << section_normalized_score(score_attr(rs[i])) >>
           ELSE <<>> ) \o section_scores(rs, i + 1)

\* sum(section_scores)
RECURSIVE sum_scores(_, _)
sum_scores(sq, i) ==
    IF i > Len(sq) THEN Num(0, 1) ELSE Add(sq[i], sum_scores(sq, i + 1))

\* the flowables of one section: heading, section score if any, questions summary
detailed_section(name, rs) ==
    LET ss == section_scores(rs, 1)
    IN  << Entry("heading", "", name, NoneVal, 0, 0) >> \o
        ( IF Len(ss) > 0
          THEN << NumRow("Section Score", DivInt(sum_scores(ss, 1), Len(ss))) >>
          ELSE <<>> ) \o
        << CountRow("Questions completed", completed_questions(rs)),
           CountRow("Questions total", Len(rs)) >>

RECURSIVE detailed_sections(_, _, _)
detailed_sections(resp, names, k) ==
    IF k > Len(names) THEN <<>>
    ELSE detailed_section(names[k], section_responses(resp, names[k])) \o
         detailed_sections(resp, names, k + 1)

\* `score > 5` raises TypeError for a score that is a string
create_detailed_results(resp) ==
    Section(\E i \in 1..Len(resp) : score_attr(resp[i]).kind = "str",
            << Para("Detailed Results by Dimension") >> \o
            detailed_sections(resp, section_names(resp, 1, <<>>), 1),
            NoLocals)

-----------------------------------------------------------------------------
(* test_enhanced_roadmap.py: test_roadmap_logic *)

\* the keys of mock_subdimension_scores, in the order of the dictionary
SubdimNames ==
    << "Build", "Deployment", "Design", "Application Hardening", "Logging" >>

\* app.get_maturity_level_from_score, as test_maturity_level_mapping tabulates it:
\* the score rounded to the nearest level, a midpoint going up, within 1..5
get_maturity_level_from_score(score) ==
    Max2(1, Min2(5, (2 * score.n + score.d) \div (2 * score.d)))

phase_bucket_top(level) ==
    IF level <= 2 THEN 1
    ELSE IF level = 3 THEN 2
    ELSE IF level >= 4 THEN 3
    ELSE 0

\* if level <= 2: phase_1 / elif level == 3: phase_2 / elif level == 4: phase_3;
\* 0 when no branch is taken
phase_bucket(level) ==
    IF level <= 2 THEN 1
    ELSE IF level = 3 THEN 2
    ELSE IF level = 4 THEN 3
    ELSE 0

\* the phase that the test prints each list under
phase_label(b) ==
    IF b = 1 THEN "0-3 months"
    ELSE IF b = 2 THEN "3-6 months"
    ELSE IF b = 3 THEN "6-12 months"
    ELSE ""

NoRoadmap == [ran |-> FALSE, levels |-> <<>>, phase_1 |-> <<>>, phase_2 |-> <<>>,
              phase_3 |-> <<>>]

\* the loop `for subdim, data in mock_subdimension_scores.items()`, from key i on
RECURSIVE categorize(_, _, _)
categorize(mock, i, acc) ==
    IF i > Len(mock) THEN acc
    ELSE LET level == get_maturity_level_from_score(mock[i])
             b == phase_bucket(level)
             subdim == SubdimNames[i]
         IN  categorize(mock, i + 1,
                 [acc EXCEPT !.levels = Append(@, level),
                             !.phase_1 = IF b = 1 THEN Append(@, subdim) ELSE @,
                             !.phase_2 = IF b = 2 THEN Append(@, subdim) ELSE @,
                             !.phase_3 = IF b = 3 THEN Append(@, subdim) ELSE @])

test_roadmap_logic(mock) == categorize(mock, 1, [NoRoadmap EXCEPT !.ran = TRUE])

-----------------------------------------------------------------------------
(* Inputs *)

SeqsUpTo(S, n) == UNION { [1..k -> S] : k \in 0..n }

\* total_score of a score record: below 1, on the 1-5 scale, between 5 and 20,
\* on the 20-100 scale, above 100, None, missing, a string
ScoreRecords ==
    { Num(k, 1) : k \in {0, 1, 2, 3, 5, 6, 20, 82, 100, 200} } \cup
    { NoneVal, AbsentVal, StrVal }

EmptyScores == [is_none |-> FALSE, items |-> <<>>]
NoneScores == [is_none |-> TRUE, items |-> <<>>]

ScoresInputs ==
    { NoneScores } \cup
    { [is_none |-> FALSE, items |-> it] : it \in SeqsUpTo(ScoreRecords, MaxScores) }

Sections == { "Build", "Deployment" }

ResponseScores == { AbsentVal, NoneVal, Num(3, 1), Num(60, 1), StrVal }

\* no response, or one response
ResponsesInputs ==
    { <<>> } \cup
    { << [section |-> sec, question |-> 1, answer |-> a, score |-> sc] >> :
        sec \in Sections, a \in { "", "Yes" }, sc \in ResponseScores }

\* a list of answered responses: question is the input position
ResponseLists ==
    UNION { { [i \in 1..k |-> [section |-> f[i].section, question |-> i,
                               answer |-> "Yes", score |-> f[i].score]] :
                f \in [1..k -> [section : Sections, score : ResponseScores]] } :
            k \in 0..MaxResponses }

\* arguments of a direct call: -1.0 .. MaxArgTenths/10 in steps of 0.1
NumArgs == { Num(k, 10) : k \in (0 - 10)..MaxArgTenths }
ScoreArgs == NumArgs \cup { NoneVal, StrVal }

\* average_score of a mock sub-dimension
AverageScores ==
    { Num(k, 10) : k \in {10, 14, 15, 18, 23, 25, 27, 32, 35, 41, 44, 45, 50} }

-----------------------------------------------------------------------------
(* Initial states: the generator right after __init__ *)

Fresh ==
    /\ op = "init"
    /\ arg = NoneVal
    /\ status = "ok"
    /\ story = <<>>
    /\ locals = NoLocals
    /\ ret_label = ""
    /\ ret_list = <<>>
    /\ roadmap = NoRoadmap

Init ==
    /\ scores \in ScoresInputs
    /\ responses \in ResponsesInputs
    /\ Fresh

InitFn ==
    /\ scores = EmptyScores
    /\ responses = <<>>
    /\ Fresh

InitResp ==
    /\ scores = EmptyScores
    /\ responses \in ResponseLists
    /\ Fresh

-----------------------------------------------------------------------------
(* Actions *)

\* a create_* method or generate_pdf ran and gave section r
Report(name, r) ==
    /\ op' = name
    /\ arg' = NoneVal
    /\ status' = IF r.raised THEN "TypeError" ELSE "ok"
    /\ story' = r.story
    /\ locals' = r.locals
    /\ ret_label' = ""
    /\ ret_list' = <<>>
    /\ roadmap' = NoRoadmap
    /\ UNCHANGED <<scores, responses>>

CreateTitlePage == Report("create_title_page", create_title_page(scores))

CreateExecutiveSummary ==
    Report("create_executive_summary", create_executive_summary(scores, responses))

CreateRecommendations == Report("create_recommendations", create_recommendations(scores))

CreateMaturityLevel == Report("create_maturity_level", create_maturity_level(scores))

CreateQuestionnaireResponses ==
    Report("create_questionnaire_responses", create_questionnaire_responses(responses))

GeneratePdf == Report("generate_pdf", generate_pdf(scores, responses))

CreateDetailedResults ==
    Report("create_detailed_results", create_detailed_results(responses))

GetMaturityLevel ==
    \E score \in ScoreArgs :
        /\ op' = "get_maturity_level"
        /\ arg' = score
        /\ status' = IF get_maturity_level_raises(score) THEN "TypeError" ELSE "ok"
        /\ ret_label' = IF get_maturity_level_raises(score) THEN ""
                        ELSE get_maturity_level(score)
        /\ ret_list' = <<>>
        /\ story' = <<>>
        /\ locals' = NoLocals
        /\ roadmap' = NoRoadmap
        /\ UNCHANGED <<scores, responses>>

GenerateRecommendations ==
    \E overall_score \in NumArgs :
        /\ op' = "generate_recommendations"
        /\ arg' = overall_score
        /\ status' = "ok"
        /\ ret_list' = generate_recommendations(overall_score)
        /\ ret_label' = ""
        /\ story' = <<>>
        /\ locals' = NoLocals
        /\ roadmap' = NoRoadmap
        /\ UNCHANGED <<scores, responses>>

TestRoadmapLogic ==
    \E mock \in [1..MaxSubdims -> AverageScores] :
        /\ op' = "test_roadmap_logic"
        /\ arg' = NoneVal
        /\ status' = "ok"
        /\ roadmap' = [test_roadmap_logic(mock) EXCEPT !.ran = TRUE]
        /\ ret_label' = ""
        /\ ret_list' = <<>>
        /\ story' = <<>>
        /\ locals' = NoLocals
        /\ UNCHANGED <<scores, responses>>

Next ==
    \/ CreateTitlePage
    \/ CreateExecutiveSummary
    \/ CreateRecommendations
    \/ CreateMaturityLevel
    \/ CreateQuestionnaireResponses
    \/ CreateDetailedResults
    \/ GeneratePdf

NextFn ==
    \/ GetMaturityLevel
    \/ GenerateRecommendations
    \/ TestRoadmapLogic

\* the report sections over the generator's scores and responses
Spec == Init /\ [][Next]_vars

\* the pure functions, called directly on bounded arguments
SpecFn == InitFn /\ [][NextFn]_vars

NextResp ==
    \/ CreateQuestionnaireResponses
    \/ CreateDetailedResults
    \/ GeneratePdf

\* the sections built from self.responses, over longer response lists
SpecResp == InitResp /\ [][NextResp]_vars

-----------------------------------------------------------------------------
(* Properties *)

InSeq(x, sq) == \E k \in 1..Len(sq) : sq[k] = x

\* the fixed table level -> label
LevelLabels ==
    << "Level 1 - Initial", "Level 2 - Developing", "Level 3 - Defined",
       "Level 4 - Managed", "Level 5 - Optimized" >>

\* the level a label names (0 for a text that is no label)
LevelOf(label) ==
    IF \E n \in 1..5 : LevelLabels[n] = label
    THEN CHOOSE n \in 1..5 : LevelLabels[n] = label
    ELSE 0

\* the score loop of the last call ran to its end
LoopDone == status = "ok" /\ locals.ran

RawScore(i) == total_score_attr(scores.items[i])

\* the score rows of a questionnaire story that belong to response `ref`
ScoreRows(ref) ==
    { k \in 1..Len(story) : story[k].kind = "score" /\ story[k].ref = ref }

QuestionnaireDone == status = "ok" /\ op = "create_questionnaire_responses"

\* C1: a raw score r with 1 <= r <= 5 is normalized to r itself, in the score
\* loop and in the score line of the questionnaire section.
C1_SmallScaleUnchanged ==
    /\ LoopDone =>
          \A i \in 1..Len(scores.items) :
              (Ge(RawScore(i), 1) /\ Le(RawScore(i), 5))
                  => locals.normalized[i] = RawScore(i)
    /\ QuestionnaireDone =>
          \A i \in 1..Len(responses) :
              (IsNum(responses[i].score) /\ Ge(responses[i].score, 1)
                  /\ Le(responses[i].score, 5))
                  => \A k \in ScoreRows(responses[i].question) :
                         story[k].num = responses[i].score

C1_Witness ==
    /\ LoopDone
    /\ \E i \in 1..Len(scores.items) :
           RawScore(i) = Num(5, 1) /\ locals.normalized[i] = Num(5, 1)

\* C2: a raw score r with 5 < r <= 100 is normalized to exactly r / 20;
\* 100 gives 5.0 and 20 gives 1.0.
C2_LegacyScaleDividedBy20 ==
    LoopDone =>
        \A i \in 1..Len(scores.items) :
            LET r == RawScore(i)
                z == locals.normalized[i]
            IN  /\ (Gt(r, 5) /\ Le(r, 100)) => z.n * 20 * r.d = r.n * z.d
                /\ r = Num(100, 1) => z = Num(5, 1)
                /\ r = Num(20, 1) => z = Num(1, 1)

C2_Witness ==
    /\ LoopDone
    /\ Len(scores.items) = 2
    /\ RawScore(1) = Num(6, 1) /\ locals.normalized[1] = Num(3, 10)
    /\ RawScore(2) = Num(20, 1) /\ locals.normalized[2] = Num(1, 1)

InRange15(v) == Ge(v, 1) /\ Le(v, 5)

\* C3: for every raw score r >= 0 the normalized score lies in [1.0, 5.0], and so
\* does the overall score, the mean of the normalized scores of a non-empty list.
C3_NormalizedWithin1And5 ==
    LoopDone =>
        /\ \A i \in 1..Len(locals.normalized) : InRange15(locals.normalized[i])
        /\ InRange15(locals.overall_score)

\* C4: get_maturity_level is total on numbers and None: it returns one of the five
\* labels of the fixed table; a score that rounds below 1 gives level 1 and a
\* score that rounds above 5 gives level 5.
C4_MaturityLevelTotal ==
    (op = "get_maturity_level" /\ arg.kind \in {"num", "none"}) =>
        /\ status = "ok"
        /\ LevelOf(ret_label) \in 1..5
        /\ (IsNum(arg) /\ PyRound(arg) < 1) => ret_label = "Level 1 - Initial"
        /\ (IsNum(arg) /\ PyRound(arg) > 5) => ret_label = "Level 5 - Optimized"
        /\ (IsNum(arg) /\ PyRound(arg) \in 1..5) => LevelOf(ret_label) = PyRound(arg)

C4_Witness ==
    /\ op = "get_maturity_level"
    /\ IsNum(arg) /\ Lt(arg, 0)
    /\ status = "ok"
    /\ ret_label = "Level 1 - Initial"

\* the nearest integer, a midpoint going up
RoundHalfUp(a) == (2 * a.n + a.d) \div (2 * a.d)

\* C5: for a score s in [1, 5] the level get_maturity_level reports is s rounded
\* to the nearest integer with midpoints rounded up (1.5 -> 2, 2.5 -> 3,
\* 3.5 -> 4, 4.5 -> 5), as the results page computes it.
C5_MidpointsRoundUp ==
    (op = "get_maturity_level" /\ IsNum(arg) /\ InRange15(arg)) =>
        LevelOf(ret_label) = RoundHalfUp(arg)

\* C6: the level is non-decreasing in the score over [1, 5].
C6_LevelMonotone ==
    (op = "get_maturity_level" /\ IsNum(arg) /\ InRange15(arg)) =>
        \A b \in NumArgs :
            (InRange15(b) /\ Leq(arg, b))
                => LevelOf(ret_label) <= LevelOf(get_maturity_level(b))

C6_Witness ==
    /\ op = "get_maturity_level"
    /\ arg = Num(5, 2)
    /\ LevelOf(ret_label) = 2
    /\ LevelOf(get_maturity_level(Num(26, 10))) = 3

NoData(v) == v.kind \in {"none", "absent", "str"}

MaturityOps ==
    {"create_title_page", "create_executive_summary", "create_maturity_level",
     "generate_pdf"}

\* C7: a score record whose total_score, or a response whose score, is absent,
\* None or non-numeric never makes a call fail, and a report over such a single
\* score record shows maturity level 1.
C7_MissingScoreNeverFails ==
    ( /\ op # "init"
      /\ \/ \E i \in 1..Len(scores.items) : NoData(scores.items[i])
         \/ \E i \in 1..Len(responses) : NoData(responses[i].score) ) =>
        /\ status = "ok"
        /\ ( /\ op \in MaturityOps
             /\ Len(scores.items) = 1
             /\ NoData(scores.items[1]) )
               => \E k \in 1..Len(story) : story[k].text = "Level 1 - Initial"

HasScoreRow(value) ==
    \E k \in 1..Len(story) :
        /\ story[k].kind = "row"
        /\ story[k].label \in {"Overall Maturity Score", "Overall Maturity Score:"}
        /\ story[k].num = value

HasLevelRow(label) ==
    \E k \in 1..Len(story) :
        /\ story[k].kind = "row"
        /\ story[k].label \in {"Maturity Level", "Maturity Level:"}
        /\ story[k].text = label

HasNoMaturityRow ==
    \A k \in 1..Len(story) : story[k].kind # "row"

Disjoint(a, b) == \A i \in 1..Len(a) : ~InSeq(a[i], b)

\* C9: generate_recommendations returns the list of the tier chosen by
\* score < 2, else score < 3, else score < 4, else the top tier; each list has 4
\* strings and the four lists are pairwise disjoint.
C9_RecommendationTiers ==
    op = "generate_recommendations" =>
        /\ Lt(arg, 2) => ret_list = RecsBelow2
        /\ (Ge(arg, 2) /\ Lt(arg, 3)) => ret_list = RecsBelow3
        /\ (Ge(arg, 3) /\ Lt(arg, 4)) => ret_list = RecsBelow4
        /\ Ge(arg, 4) => ret_list = RecsTop
        /\ Len(ret_list) = 4
        /\ \A t \in {RecsBelow2, RecsBelow3, RecsBelow4, RecsTop} :
               t = ret_list \/ Disjoint(t, ret_list)

C9_Witness ==
    /\ op = "generate_recommendations"
    /\ arg = Num(2, 1)
    /\ ret_list = RecsBelow3

\* C10: a sub-dimension of level 1 or 2 is in the 0-3 months list only, of level 3
\* in the 3-6 months list only, of level 4 in the 6-12 months list only, and of
\* level 5 in no list.
C10_PhaseByLevel ==
    roadmap.ran =>
        \A i \in 1..Len(roadmap.levels) :
            LET level == roadmap.levels[i]
                in1 == InSeq(SubdimNames[i], roadmap.phase_1)
                in2 == InSeq(SubdimNames[i], roadmap.phase_2)
                in3 == InSeq(SubdimNames[i], roadmap.phase_3)
            IN  /\ level \in {1, 2} => (in1 /\ ~in2 /\ ~in3)
                /\ level = 3 => (~in1 /\ in2 /\ ~in3)
                /\ level = 4 => (~in1 /\ ~in2 /\ in3)
                /\ level = 5 => (~in1 /\ ~in2 /\ ~in3)

C10_Witness ==
    /\ roadmap.ran
    /\ roadmap.levels[1] = 5
    /\ roadmap.levels[2] = 4
    /\ roadmap.phase_1 = <<>> /\ roadmap.phase_2 = <<>>
    /\ roadmap.phase_3 = << "Deployment" >>

\* C11: a single raw score of 82 is normalized to 4.1, reported as level 4,
\* "Managed", and a sub-dimension of that level is in the 6-12 months phase.
C11_LegacyEndToEnd ==
    (LoopDone /\ op \in MaturityOps /\ scores.items = << Num(82, 1) >>) =>
        /\ locals.normalized = << Num(41, 10) >>
        /\ locals.overall_score = Num(41, 10)
        /\ HasScoreRow(Num(41, 10))
        /\ HasLevelRow("Level 4 - Managed")
        /\ \A k \in 1..Len(story) :
               (story[k].kind = "row"
                   /\ story[k].label \in {"Maturity Level", "Maturity Level:"}) =>
                   /\ LevelOf(story[k].text) = 4
                   /\ phase_label(phase_bucket(LevelOf(story[k].text))) = "6-12 months"

C11_Witness ==
    /\ LoopDone
    /\ op = "create_maturity_level"
    /\ scores.items = << Num(82, 1) >>
    /\ HasLevelRow("Level 4 - Managed")
    /\ HasScoreRow(Num(41, 10))

\* positions of the question lines and of the section headings in the story
QuestionLines == { k \in 1..Len(story) : story[k].kind = "question" }
HeadingLines == { k \in 1..Len(story) : story[k].kind = "heading" }

\* the section heading a line stands under (0 when there is none before it)
HeadingAbove(k) ==
    IF \E h \in HeadingLines : h < k
    THEN CHOOSE h \in HeadingLines : h < k /\ \A g \in HeadingLines : g < k => g <= h
    ELSE 0

\* the input position of the first response that names the section
FirstResponseOf(sec) ==
    CHOOSE i \in 1..Len(responses) :
        /\ responses[i].section = sec
        /\ \A j \in 1..(i - 1) : responses[j].section # sec

\* how many responses up to position j name the section of response j
RankInSection(j) ==
    Cardinality({ i \in 1..j : responses[i].section = responses[j].section })

QuestionnaireStoryGrouped ==
    \* every response exactly once
    /\ Cardinality(QuestionLines) = Len(responses)
    /\ \A j \in 1..Len(responses) :
           Cardinality({ k \in QuestionLines : story[k].ref = j }) = 1
    \* under the one heading of its section
    /\ \A k \in QuestionLines :
           /\ HeadingAbove(k) # 0
           /\ story[HeadingAbove(k)].text = responses[story[k].ref].section
    /\ \A g, h \in HeadingLines : story[g].text = story[h].text => g = h
    \* sections in the order of their first response
    /\ \A g, h \in HeadingLines :
           g < h => FirstResponseOf(story[g].text) < FirstResponseOf(story[h].text)
    \* input order inside a section
    /\ \A k, l \in QuestionLines :
           (k < l /\ HeadingAbove(k) = HeadingAbove(l)) => story[k].ref < story[l].ref
    \* Q1, Q2, ... inside each section
    /\ \A k \in QuestionLines : story[k].q = RankInSection(story[k].ref)
    \* a score line iff the score is not None
    /\ \A j \in 1..Len(responses) :
           (ScoreRows(j) # {}) <=> (score_attr(responses[j]).kind # "none")

\* C12: create_questionnaire_responses emits every response exactly once, grouped
\* by section in the order of first appearance, in input order inside a section,
\* numbered Q1.. per section, with a score line iff the score is not None.
C12_EveryResponseOnceGrouped ==
    op = "create_questionnaire_responses" => QuestionnaireStoryGrouped

\* the same, for the calls that return
QuestionnaireGroupedWhenReturned ==
    QuestionnaireDone => QuestionnaireStoryGrouped

QuestionnaireGroupedReached ==
    /\ QuestionnaireDone
    /\ Len(responses) = 3
    /\ responses[1].section = "Build" /\ responses[2].section = "Deployment"
    /\ responses[3].section = "Build"
    /\ \E k \in QuestionLines : story[k].ref = 3 /\ story[k].q = 2 /\ k < HeadingAbove(k) + 6
    /\ ScoreRows(1) # {} /\ ScoreRows(2) = {}

\* the tier of a recommendation list: 1 for '<2', 2 for '<3', 3 for '<4', 4 for the top
TierOf(list) ==
    IF list = RecsBelow2 THEN 1
    ELSE IF list = RecsBelow3 THEN 2
    ELSE IF list = RecsBelow4 THEN 3
    ELSE IF list = RecsTop THEN 4
    ELSE 0

\* the tier that corresponds to a level: levels 4 and 5 share the top tier
TierOfLevel(n) == Min2(n, 4)

\* the level shown and the tier picked for the score of the last direct call
ShownLevel ==
    IF op = "get_maturity_level" THEN LevelOf(ret_label)
    ELSE LevelOf(get_maturity_level(arg))

PickedTier ==
    IF op = "generate_recommendations" THEN TierOf(ret_list)
    ELSE TierOf(generate_recommendations(arg))

ScoredCall ==
    /\ op \in {"get_maturity_level", "generate_recommendations"}
    /\ IsNum(arg)
    /\ InRange15(arg)

\* the largest integer not above a
Floor(a) == a.n \div a.d

\* C13 as stated: for every score in [1, 5] the level shown corresponds to the
\* recommendation tier picked (1 with '<2', 2 with '<3', 3 with '<4', 4-5 with top).
C13_TierMatchesLevel ==
    ScoredCall => TierOfLevel(ShownLevel) = PickedTier

\* C13 amended: the tier is that of the score rounded down and the level that of
\* the score rounded to nearest; they correspond when the score is 4 or more or
\* does not round up, and otherwise the level is one above the tier's.
C13_TierIsLevelOrOneBelow ==
    ScoredCall =>
        /\ PickedTier = TierOfLevel(Floor(arg))
        /\ (Ge(arg, 4) \/ PyRound(arg) = Floor(arg))
              => TierOfLevel(ShownLevel) = PickedTier
        /\ (Lt(arg, 4) /\ PyRound(arg) # Floor(arg))
              => ShownLevel = PickedTier + 1

C13_Witness ==
    /\ op = "get_maturity_level"
    /\ arg = Num(16, 10)
    /\ ShownLevel = 2
    /\ PickedTier = 1

InRange0To100(v) == Ge(v, 0) /\ Le(v, 100)

\* the section score rows of a detailed-results story
SectionScoreRows ==
    { k \in 1..Len(story) : story[k].kind = "row" /\ story[k].label = "Section Score" }

\* C14: for a raw score r with 0 <= r <= 100 normalizing the normalized score
\* again changes nothing: a score converted from the legacy scale is at most 5
\* and is not divided by 20 a second time.
C14_NormalizeIdempotent ==
    /\ LoopDone =>
          \A i \in 1..Len(scores.items) :
              InRange0To100(RawScore(i)) =>
                  /\ normalized_score(locals.normalized[i]) = locals.normalized[i]
                  /\ Le(locals.normalized[i], 5)
    /\ ( /\ status = "ok"
         /\ op = "create_detailed_results"
         /\ Len(responses) = 1
         /\ IsNum(responses[1].score)
         /\ InRange0To100(responses[1].score) ) =>
          \A k \in SectionScoreRows :
              section_normalized_score(story[k].num) = story[k].num

C14_Witness ==
    /\ LoopDone
    /\ Len(scores.items) = 2
    /\ RawScore(1) = Num(100, 1) /\ locals.normalized[1] = Num(5, 1)
    /\ RawScore(2) = Num(82, 1) /\ locals.normalized[2] = Num(41, 10)
    /\ normalized_score(locals.normalized[1]) = Num(5, 1)

====
